---- MODULE Spec2Model ----
(***************************************************************************)
(* State-machine model of the slide conversion service:                    *)
(*   main.go        convertHandler, customErrorHandler, CustomAPIError     *)
(*   unnamed/part_000  ValidateURL, FetchSlideImages, fetchImage,          *)
(*                  fetchImagesConcurrently, ConvertURLsTo{PDF,PPTX,Zip},  *)
(*                  GetSlidesDownloadLink                                  *)
(* One request is followed from the handler to its response.  The bounded  *)
(* fetcher is modelled goroutine by goroutine; FetchSpec runs it alone on  *)
(* inputs drawn from bounded sets, Spec runs it as a stage of the pipeline.*)
(* FairFetchSpec adds the scheduler's fairness to the fetcher, ArchiveSpec *)
(* runs the archive export alone, PdfSpec runs convertImagePathsToPDF.     *)
(***************************************************************************)
EXTENDS Integers, Sequences, FiniteSets, TLC

\* ------------------------------------------------------------------ bounds
\* Largest manifest (number of slides on a page) in Spec.
MaxSlides == 2
\* Largest URL list handed to fetchImagesConcurrently in FetchSpec.
MaxUrls == 3
\* Largest semaphore size handed to fetchImagesConcurrently in FetchSpec.
MaxCeil == 2

\* --------------------------------------------------------------- constants
\* The zero value "" of a results slot (make([]string, n)): no path.
NoPath == 0
\* The zero value nil of an errors slot (make([]error, n)).
NoErr == "nil"
\* A nil error returned by a function.
NilError == [type |-> "nil", StatusCode |-> 0, Detail |-> <<>>]

\* &CustomAPIError{StatusCode: c, Detail: d}
CustomAPIError(c, d) == [type |-> "CustomAPIError", StatusCode |-> c, Detail |-> d]
\* fmt.Errorf(...) and errors of the os package: no CustomAPIError in the chain.
PlainError(d) == [type |-> "plain", StatusCode |-> 0, Detail |-> d]

\* The outcomes of one fetchImage call, by the return statement taken.
FetchOutcomes == {"ok", "request", "status", "decode", "createTemp", "encode"}
\* The outcomes in which os.CreateTemp had succeeded (a file exists on storage).
FileCreating == {"ok", "encode"}

VARIABLES
    \* --- the environment
    disk,           \* local storage: file name -> content
    nextTmp,        \* os.CreateTemp's supply of unique names
    created,        \* names of the temp files fetchImage calls have created
    remote,         \* the FTP store: remote path -> content
    publishCalls,   \* number of uploadToFTP calls made
    \* --- fetchImagesConcurrently
    fpc,            \* "idle" | "running" | "returned"
    urls,           \* the urls argument
    maxConcurrency, \* the maxConcurrency argument
    spawned,        \* loop index of the spawning for loop
    wg,             \* the WaitGroup counter
    sem,            \* permits of the weighted semaphore currently held
    tpc,            \* per goroutine: "unspawned" | "acquire" | "fetch" | "exit" | "done"
    results,        \* the results slice
    errors,         \* the errors slice
    requests,       \* per URL index: the GET requests fetchImage calls have issued
    fetchRet,       \* the pair returned by fetchImagesConcurrently
    \* --- the request pipeline
    hpc,            \* position of the request in handler / orchestrator / converter
    req,            \* the query parameters of the request
    docShort,       \* GetSlidesDownloadLink's docShort
    manifest,       \* the slides sequence FetchSlideImages returned
    quality,        \* GetSlidesDownloadLink's quality: the target width
    highResImages,  \* the selected URL sequence
    thumbnail,      \* highResImages[0]
    conv,           \* the running converter's locals
    stages,         \* the pipeline stages run so far, with their status
    resp,           \* the HTTP response
    \* --- convertImagePathsToPDF
    ppc,            \* "idle" | "new" | "loop" | "returned"
    imagePaths,     \* the imagePaths argument
    pdfPath,        \* the pdfPath argument
    pdf,            \* the gofpdf document under construction
    imgIdx,         \* position of the range loop in imagePaths, from 1
    pdfCalls        \* what each finished call returned and had built

envVars == <<disk, nextTmp, created, remote, publishCalls>>
fetchVars == <<fpc, urls, maxConcurrency, spawned, wg, sem, tpc, results, errors, requests, fetchRet>>
pipeVars == <<hpc, req, docShort, manifest, quality, highResImages, thumbnail, conv, stages, resp>>
pdfVars == <<ppc, imagePaths, pdfPath, pdf, imgIdx, pdfCalls>>
vars == <<envVars, fetchVars, pipeVars, pdfVars>>

\* ------------------------------------------------------------ storage
\* os.Remove(name): the file is gone afterwards (removing a missing file is an
\* ignored error).
Remove(d, name) == [n \in (DOMAIN d) \ {name} |-> d[n]]
\* os.Remove over a set of names.
RemoveAll(d, names) == [n \in (DOMAIN d) \ names |-> d[n]]
\* A file written at a fresh name.
WriteFile(d, name, content) == [n \in (DOMAIN d) \cup {name} |-> IF n = name THEN content ELSE d[n]]

\* The JPEG that fetchImage writes for the image behind url.
JpegOf(url) == [kind |-> "jpeg", src |-> url, complete |-> TRUE]
\* What is left in the temp file when jpeg.Encode fails.
PartialJpegOf(url) == [kind |-> "jpeg", src |-> url, complete |-> FALSE]

\* ------------------------------------------------ fetchImagesConcurrently
Indices == 1..Len(urls)

\* sem.Acquire(ctx, 1) with a background context returns once a permit is
\* free; a request larger than the semaphore's size never returns.
CanAcquireOffByOne(held, size) == held <= size
CanAcquire(held, size) == held + 1 <= size

\* results[i] = filePath
StoreResultAppend(res, i, path) ==
    LET free == {k \in DOMAIN res : res[k] = NoPath}
        k == CHOOSE m \in free : \A o \in free : m <= o
    IN [res EXCEPT ![k] = path]
StoreResult(res, i, path) == [res EXCEPT ![i] = path]

\* errors[i] = err
StoreErrorAppend(errs, i, err) ==
    LET free == {k \in DOMAIN errs : errs[k] = NoErr}
        k == CHOOSE m \in free : \A o \in free : m <= o
    IN [errs EXCEPT ![k] = err]
StoreError(errs, i, err) == [errs EXCEPT ![i] = err]

\* The first non-nil entry of errors, in index order (for _, err := range errors).
FailedIndices(errs) == {i \in DOMAIN errs : errs[i] # NoErr}
LastError(errs) ==
    LET i == CHOOSE m \in FailedIndices(errs) : \A o \in FailedIndices(errs) : m >= o
    IN errs[i]
FirstError(errs) ==
    LET i == CHOOSE m \in FailedIndices(errs) : \A o \in FailedIndices(errs) : m <= o
    IN errs[i]

\* for _, file := range results { if file != "" { os.Remove(file) } }
ResultFiles(res) == {res[i] : i \in DOMAIN res} \ {NoPath}

\* Entry of fetchImagesConcurrently(us, mc): lines 155-161.
FetchCall(us, mc) ==
    /\ fpc' = "running"
    /\ urls' = us
    /\ maxConcurrency' = mc
    /\ spawned' = 0
    /\ wg' = 0
    /\ sem' = 0
    /\ tpc' = [i \in 1..Len(us) |-> "unspawned"]
    /\ results' = [i \in 1..Len(us) |-> NoPath]
    /\ errors' = [i \in 1..Len(us) |-> NoErr]
    /\ requests' = [i \in 1..Len(us) |-> 0]
    /\ fetchRet' = [paths |-> <<>>, err |-> NilError]

\* One iteration of the spawning loop: wg.Add(1); go func(i, urlStr).
Spawn ==
    /\ fpc = "running"
    /\ spawned < Len(urls)
    /\ spawned' = spawned + 1
    /\ wg' = wg + 1
    /\ tpc' = [tpc EXCEPT ![spawned + 1] = "acquire"]
    /\ UNCHANGED <<fpc, urls, maxConcurrency, sem, results, errors, requests, fetchRet>>
    /\ UNCHANGED <<envVars, pipeVars, pdfVars>>

\* Goroutine i: sem.Acquire(ctx, 1) returns nil; defer sem.Release(1).
Acquire(i) ==
    /\ fpc = "running"
    /\ tpc[i] = "acquire"
    /\ CanAcquire(sem, maxConcurrency)
    /\ sem' = sem + 1
    /\ tpc' = [tpc EXCEPT ![i] = "fetch"]
    /\ UNCHANGED <<fpc, urls, maxConcurrency, spawned, wg, results, errors, requests, fetchRet>>
    /\ UNCHANGED <<envVars, pipeVars, pdfVars>>

\* Where goroutine i goes once fetchImage has returned: to its deferred calls,
\* whatever the outcome (a failed fetch is not tried again).
AfterFetchImageRetrying(outcome) == IF outcome = "request" THEN "fetch" ELSE "exit"
AfterFetchImage(outcome) == "exit"

\* Goroutine i: fetchImage(ctx, client, urlStr) and the store of its result in
\* slot i.  The outcome names the return statement fetchImage takes.
FetchImage(i, outcome) ==
    /\ fpc = "running"
    /\ tpc[i] = "fetch"
    /\ IF outcome \in FileCreating
         THEN /\ disk' = WriteFile(disk, nextTmp,
                            IF outcome = "ok" THEN JpegOf(urls[i]) ELSE PartialJpegOf(urls[i]))
              /\ nextTmp' = nextTmp + 1
              /\ created' = created \cup {nextTmp}
         ELSE UNCHANGED <<disk, nextTmp, created>>
    /\ IF outcome = "ok"
         THEN /\ results' = StoreResult(results, i, nextTmp)
              /\ UNCHANGED errors
         ELSE /\ errors' = StoreError(errors, i, outcome)
              /\ UNCHANGED results
    /\ requests' = [requests EXCEPT ![i] = @ + 1]
    /\ tpc' = [tpc EXCEPT ![i] = AfterFetchImage(outcome)]
    /\ UNCHANGED <<fpc, urls, maxConcurrency, spawned, wg, sem, fetchRet>>
    /\ UNCHANGED <<remote, publishCalls, pipeVars, pdfVars>>

\* defer sem.Release(1): the goroutine gives its permit back.
ReleaseLeaked(held) == held
Release(held) == held - 1

\* Goroutine i returns: the deferred sem.Release(1), then the deferred wg.Done().
TaskExit(i) ==
    /\ fpc = "running"
    /\ tpc[i] = "exit"
    /\ sem' = Release(sem)
    /\ wg' = wg - 1
    /\ tpc' = [tpc EXCEPT ![i] = "done"]
    /\ UNCHANGED <<fpc, urls, maxConcurrency, spawned, results, errors, requests, fetchRet>>
    /\ UNCHANGED <<envVars, pipeVars, pdfVars>>

\* wg.Wait() returns once the WaitGroup counter is zero.
WaitReturnsEarly(counter) == counter <= 1
WaitReturns(counter) == counter = 0

\* wg.Wait() returns, then lines 184-195: on the first error every recorded
\* result file is removed and the error is returned; otherwise the results.
Join ==
    /\ fpc = "running"
    /\ spawned = Len(urls)
    /\ WaitReturns(wg)
    /\ fpc' = "returned"
    /\ IF FailedIndices(errors) # {}
         THEN /\ disk' = RemoveAll(disk, ResultFiles(results))
              /\ fetchRet' = [paths |-> <<>>,
                              err |-> CustomAPIError(500,
                                        <<"Failed to fetch images: ", FirstError(errors)>>)]
         ELSE /\ disk' = disk
              /\ fetchRet' = [paths |-> results, err |-> NilError]
    /\ UNCHANGED <<urls, maxConcurrency, spawned, wg, sem, tpc, results, errors, requests>>
    /\ UNCHANGED <<nextTmp, created, remote, publishCalls, pipeVars, pdfVars>>

FetchNext ==
    \/ Spawn
    \/ \E i \in Indices : Acquire(i)
    \/ \E i \in Indices, o \in FetchOutcomes : FetchImage(i, o)
    \/ \E i \in Indices : TaskExit(i)
    \/ Join

\* ------------------------------------------------------------ the request
\* The enum constants of main.go.
PDF == "PDF"
PPTX == "PPTX"
ImagesZip == "IMAGES_ZIP"
HD == "HD"
SD == "SD"

\* The target widths of GetSlidesDownloadLink.
HDWidth == 2048
SDWidth == 638
Widths == {SDWidth, HDWidth}
\* fmt.Sprintf("%d", w)
WidthStr(w) == CASE w = 638 -> "638" [] w = 2048 -> "2048" [] OTHER -> "?"

\* The ceilings the three converters hand to fetchImagesConcurrently.
PdfConcurrency == 25000
PptxConcurrency == 10
ZipConcurrency == 10

\* The url parameter values followed, with what net/url and strings make of
\* each: strings.TrimSpace, url.Parse (ok, Host) and
\* strings.Split(strings.Trim(u.Path, "/"), "/").
UrlInputs ==
    {"", "   ", "http://[::1", "https://example.com/a/b",
     "https://www.slideshare.net/deck",
     "https://www.slideshare.net/slideshow/my-deck/123"}
TrimSpace(s) == IF s = "   " THEN "" ELSE s
UrlParse(s) ==
    CASE s = "http://[::1" ->
           [ok |-> FALSE, Host |-> "", pathParts |-> <<"">>]
      [] s = "https://example.com/a/b" ->
           [ok |-> TRUE, Host |-> "example.com", pathParts |-> <<"a", "b">>]
      [] s = "https://www.slideshare.net/deck" ->
           [ok |-> TRUE, Host |-> "www.slideshare.net", pathParts |-> <<"deck">>]
      [] s = "https://www.slideshare.net/slideshow/my-deck/123" ->
           [ok |-> TRUE, Host |-> "www.slideshare.net",
            pathParts |-> <<"slideshow", "my-deck", "123">>]
      [] OTHER ->
           [ok |-> TRUE, Host |-> "", pathParts |-> <<"">>]

\* The conversion_type and quality parameter values followed ("" is absent).
ConvInputs == {"", "pdf", "pptx", "images_zip", "PDF", "PPTX", "IMAGES_ZIP"}
QualityInputs == {"", "hd", "sd", "SD"}

\* ConvertParams as c.QueryParser fills it (ok: QueryParser returned nil).
\* The struct's validate tags are never evaluated: no validator is called.
Requests ==
    [ok : {TRUE}, url : UrlInputs, conversion_type : ConvInputs, quality : QualityInputs]
    \cup {[ok |-> FALSE, url |-> "", conversion_type |-> "", quality |-> ""]}

\* ------------------------------------------------------------ responses
NoUrl == [slide |-> 0, width |-> 0]
NoFtpPath == [dir |-> "", name |-> [base |-> "", ext |-> ""]]
NoData ==
    [thumbnail |-> NoUrl, quality |-> "", conversion_type |-> "",
     slides_download_link |-> [base |-> "", path |-> NoFtpPath],
     file_name |-> [base |-> "", ext |-> ""], size |-> 0, title |-> ""]
NoResponse ==
    [status |-> 0, success |-> FALSE, detail |-> <<>>, data |-> NoData,
     err |-> NilError, origin |-> "none"]

\* customErrorHandler: errors.As(err, &apiErr) decides between the error's own
\* code and detail and the default 500 "Internal Server Error".
HandlerStatus(err) == IF err.type = "CustomAPIError" THEN err.StatusCode ELSE 500
HandlerDetail(err) ==
    IF err.type = "CustomAPIError" THEN err.Detail ELSE <<"Internal Server Error">>
\* origin: "handler" for an error convertHandler makes itself, "pipeline" for
\* one GetSlidesDownloadLink returned.
ErrorResponse(err, origin) ==
    [status |-> HandlerStatus(err), success |-> FALSE, detail |-> HandlerDetail(err),
     data |-> NoData, err |-> err, origin |-> origin]
\* c.JSON(result)
SuccessResponse(data) ==
    [status |-> 200, success |-> TRUE, detail |-> <<>>, data |-> data,
     err |-> NilError, origin |-> "none"]

\* ------------------------------------------------------------ stage log
\* The stages of the orchestrator, in the order GetSlidesDownloadLink and the
\* converters run them.
StageOrder == <<"Validate", "Resolve", "Select", "Fetch", "Export", "Publish", "Assemble">>
Started(s, name) == Append(s, [name |-> name, status |-> "running"])
Ended(s, ok) == [s EXCEPT ![Len(s)].status = IF ok THEN "ok" ELSE "failed"]
Ran(s, name, ok) == Ended(Started(s, name), ok)

\* ------------------------------------------------------------ converters
NoContent == [kind |-> "none", complete |-> FALSE, items |-> <<>>]
ConvIdle ==
    [kind |-> "none", imagePaths |-> <<>>, tmpOut |-> NoPath, fetched |-> FALSE,
     returned |-> FALSE, deck |-> <<>>, uploaded |-> NoContent, size |-> 0,
     ftpPath |-> NoFtpPath]

Range(f) == {f[i] : i \in DOMAIN f}

\* The deferred calls of a converter, run when it returns after the fetch
\* succeeded: os.Remove of the export temp file (once it was created) and of
\* every image path.
DeferredCleanupImagesOnly(d, c) == RemoveAll(d, Range(c.imagePaths))
DeferredCleanup(d, c) ==
    RemoveAll(d, Range(c.imagePaths) \cup (IF c.tmpOut # NoPath THEN {c.tmpOut} ELSE {}))

\* File extension and ceiling by converter.
ExtOf(kind) == CASE kind = PDF -> ".pdf" [] kind = PPTX -> ".pptx" [] OTHER -> ".zip"
CeilingOf(kind) ==
    CASE kind = PDF -> PdfConcurrency [] kind = PPTX -> PptxConcurrency [] OTHER -> ZipConcurrency

\* fmt.Sprintf("%s/%s", "SS_DL/<ddmmyyyy>", filename)
FtpPathOf(filename) == [dir |-> "SS_DL/<date>", name |-> filename]

\* One item (page, slide, archive entry) per image path, in order.
ItemsOf(d, paths, label) == [k \in 1..Len(paths) |-> [name |-> <<label, k>>, data |-> d[paths[k]]]]
\* Entry names of the archive, as byte strings: "image_", the decimal digits
\* that fmt.Sprintf("%d") prints, ".jpg".
ImagePrefix == <<105, 109, 97, 103, 101, 95>>
JpgSuffix == <<46, 106, 112, 103>>
RECURSIVE Decimal(_)
Decimal(n) == IF n < 10 THEN <<48 + n>> ELSE Decimal(n \div 10) \o <<48 + (n % 10)>>
\* entryName := fmt.Sprintf("image_%d.jpg", i+1), i the loop index from 0.
EntryNameZeroBased(i) == ImagePrefix \o Decimal(i) \o JpgSuffix
EntryName(i) == ImagePrefix \o Decimal(i + 1) \o JpgSuffix
\* The entries the loop of ConvertURLsToZip writes: for i, imgPath := range
\* imagePaths, an entry named EntryName(i) holding the bytes of imgPath.
ZipItemsOf(d, paths) ==
    [k \in 1..Len(paths) |-> [name |-> EntryName(k - 1), data |-> d[paths[k]]]]
\* os.Stat(...).Size(), abstracted to a positive number.
FileSize(content) == 1 + Len(content.items)

\* The error a converter returns for a failed upload.
UploadError(kind) ==
    IF kind = PPTX THEN PlainError(<<"FTP upload failed: ", "ftp error">>)
    ELSE CustomAPIError(500, <<"FTP upload failed: ", "ftp error">>)

\* ------------------------------------------------------------ the pipeline
\* convertHandler up to the call of GetSlidesDownloadLink: QueryParser, the
\* blank-url check and the HD default of quality.
ConvertHandler ==
    /\ hpc = "handler"
    /\ LET err == IF ~req.ok THEN CustomAPIError(400, <<"Invalid query parameters">>)
                  ELSE IF TrimSpace(req.url) = "" THEN CustomAPIError(400, <<"Url can't be empty">>)
                  ELSE NilError
       IN /\ hpc' = IF err = NilError THEN "validate" ELSE "done"
          /\ resp' = IF err = NilError THEN resp ELSE ErrorResponse(err, "handler")
          /\ req' = IF err = NilError /\ req.quality = "" THEN [req EXCEPT !.quality = HD] ELSE req
    /\ UNCHANGED <<docShort, manifest, quality, highResImages, thumbnail, conv, stages>>
    /\ UNCHANGED <<envVars, fetchVars, pdfVars>>

\* ValidateURL(urlStr)
ValidateURL(s) ==
    IF ~UrlParse(s).ok THEN CustomAPIError(400, <<"Invalid URL">>)
    ELSE IF UrlParse(s).Host # "www.slideshare.net"
           THEN CustomAPIError(400, <<"Invalid SlideShare URL">>)
    ELSE NilError

\* GetSlidesDownloadLink, lines 482-498: ValidateURL, then the document short
\* name, the second-to-last part of the path.
ValidateStage ==
    /\ hpc = "validate"
    /\ LET u == UrlParse(req.url)
           err == IF ValidateURL(req.url) # NilError THEN ValidateURL(req.url)
                  ELSE IF ~u.ok THEN CustomAPIError(400, <<"Invalid URL format">>)
                  ELSE IF Len(u.pathParts) < 2
                         THEN CustomAPIError(400, <<"Invalid SlideShare URL format">>)
                  ELSE NilError
       IN /\ hpc' = IF err = NilError THEN "resolve" ELSE "done"
          /\ resp' = IF err = NilError THEN resp ELSE ErrorResponse(err, "pipeline")
          /\ docShort' = IF err = NilError THEN u.pathParts[Len(u.pathParts) - 1] ELSE docShort
          /\ stages' = Ran(stages, "Validate", err = NilError)
    /\ UNCHANGED <<req, manifest, quality, highResImages, thumbnail, conv>>
    /\ UNCHANGED <<envVars, fetchVars, pdfVars>>

\* What the source page can be: the status codes followed, and the slides
\* sequences (each slide a non-empty map from width to image URL).
PageStatuses == {200, 403}
WidthSets == (SUBSET Widths) \ {{}}
Manifests ==
    UNION {{[i \in 1..n |-> [w \in ws[i] |-> [slide |-> i, width |-> w]]] :
              ws \in [1..n -> WidthSets]} : n \in 0..MaxSlides}

\* FetchSlideImages(urlStr): the error it returns (NilError: none) for a page
\* whose request succeeded or not (net), with the given status, body parse
\* result and slides.
FetchSlideImagesError(net, status, parses, slides) ==
    IF ~net THEN CustomAPIError(500, <<"Failed to fetch the presentation page">>)
    ELSE IF status # 200 THEN CustomAPIError(status, <<"Failed to fetch the presentation page">>)
    ELSE IF ~parses THEN CustomAPIError(500, <<"Failed to parse HTML">>)
    ELSE IF Len(slides) = 0 THEN CustomAPIError(404, <<"No slide images found">>)
    ELSE NilError

\* GetSlidesDownloadLink, lines 500-511.
Resolve(net, status, parses, slides) ==
    /\ hpc = "resolve"
    /\ LET err == FetchSlideImagesError(net, status, parses, slides)
       IN /\ hpc' = IF err = NilError THEN "select" ELSE "done"
          /\ resp' = IF err = NilError THEN resp ELSE ErrorResponse(err, "pipeline")
          /\ manifest' = IF err = NilError THEN slides ELSE manifest
          /\ stages' = Ran(stages, "Resolve", err = NilError)
    /\ UNCHANGED <<req, docShort, quality, highResImages, thumbnail, conv>>
    /\ UNCHANGED <<envVars, fetchVars, pdfVars>>

\* quality := 2048; if qualityType == SD { quality = 638 }
QualityWidth(qualityType) == IF qualityType = SD THEN SDWidth ELSE HDWidth

\* The selection loop, lines 520-525, from slide k on: a slide that has the
\* width appends its URL, one that lacks it is passed over.
RECURSIVE SelectFromNoSkip(_, _, _)
SelectFromNoSkip(slides, w, k) ==
    IF k > Len(slides) THEN <<>>
    ELSE LET any == CHOOSE x \in DOMAIN slides[k] : TRUE
         IN (IF w \in DOMAIN slides[k] THEN <<slides[k][w]>> ELSE <<slides[k][any]>>)
              \o SelectFromNoSkip(slides, w, k + 1)
RECURSIVE SelectFrom(_, _, _)
SelectFrom(slides, w, k) ==
    IF k > Len(slides) THEN <<>>
    ELSE (IF w \in DOMAIN slides[k] THEN <<slides[k][w]>> ELSE <<>>)
           \o SelectFrom(slides, w, k + 1)

\* GetSlidesDownloadLink, lines 513-534.
Select ==
    /\ hpc = "select"
    /\ LET w == QualityWidth(req.quality)
           sel == SelectFrom(manifest, w, 1)
           err == IF Len(sel) = 0
                    THEN CustomAPIError(404, <<"No ", WidthStr(w), "px resolution slides found">>)
                    ELSE NilError
       IN /\ quality' = w
          /\ highResImages' = sel
          /\ thumbnail' = IF err = NilError THEN sel[1] ELSE thumbnail
          /\ hpc' = IF err = NilError THEN "dispatch" ELSE "done"
          /\ resp' = IF err = NilError THEN resp ELSE ErrorResponse(err, "pipeline")
          /\ stages' = Ran(stages, "Select", err = NilError)
    /\ UNCHANGED <<req, docShort, manifest, conv>>
    /\ UNCHANGED <<envVars, fetchVars, pdfVars>>

\* The switch on conversionType, lines 540-552: the converter that runs.
ConverterFor(conversionType) ==
    IF conversionType \in {PDF, PPTX, ImagesZip} THEN conversionType ELSE "none"

\* The switch, and for a supported type the converter's first statement: the
\* call of fetchImagesConcurrently with the converter's ceiling.
Dispatch ==
    /\ hpc = "dispatch"
    /\ LET kind == ConverterFor(req.conversion_type)
       IN IF kind = "none"
            THEN /\ hpc' = "done"
                 /\ resp' = ErrorResponse(
                              CustomAPIError(400, <<"Unsupported conversion type">>), "pipeline")
                 /\ UNCHANGED <<conv, stages, fetchVars, pdfVars>>
            ELSE /\ hpc' = "fetching"
                 /\ conv' = [ConvIdle EXCEPT !.kind = kind]
                 /\ stages' = Started(stages, "Fetch")
                 /\ FetchCall(highResImages, CeilingOf(kind))
                 /\ UNCHANGED resp
    /\ UNCHANGED <<req, docShort, manifest, quality, highResImages, thumbnail>>
    /\ UNCHANGED <<envVars, pdfVars>>

\* The converter's first step after fetchImagesConcurrently returned, by kind.
FirstExportStep(kind) ==
    CASE kind = PDF -> "pdf_createTemp" [] kind = PPTX -> "pptx_addSlides" [] OTHER -> "zip_createTemp"

\* A converter returns err: its deferred removals run, GetSlidesDownloadLink
\* and convertHandler pass the error on, customErrorHandler answers.
ConvFail(err) ==
    /\ hpc' = "done"
    /\ disk' = DeferredCleanup(disk, conv)
    /\ resp' = ErrorResponse(err, "pipeline")

\* Lines 302-310, 353-361, 411-419: the converter takes the fetcher's result;
\* on an error it returns it, otherwise it defers the removal of the images.
AfterFetch ==
    /\ hpc = "fetching"
    /\ fpc = "returned"
    /\ LET ok == fetchRet.err = NilError
       IN /\ hpc' = IF ok THEN FirstExportStep(conv.kind) ELSE "done"
          /\ resp' = IF ok THEN resp ELSE ErrorResponse(fetchRet.err, "pipeline")
          /\ conv' = IF ok THEN [conv EXCEPT !.imagePaths = fetchRet.paths, !.fetched = TRUE]
                     ELSE [conv EXCEPT !.returned = TRUE]
          /\ stages' = IF ok THEN Started(Ended(stages, TRUE), "Export") ELSE Ended(stages, FALSE)
    /\ UNCHANGED <<req, docShort, manifest, quality, highResImages, thumbnail>>
    /\ UNCHANGED <<envVars, fetchVars, pdfVars>>

\* os.CreateTemp for the export file.  ConvertURLsToPDF first checks for an
\* empty image list; ConvertURLsToPPTX and ConvertURLsToZip return the os error
\* as it is, and so does ConvertURLsToPDF.
CreateTemp(ok) ==
    /\ hpc \in {"pdf_createTemp", "pptx_createTemp", "zip_createTemp"}
    /\ LET empty == conv.kind = PDF /\ Len(conv.imagePaths) = 0
           err == IF empty THEN CustomAPIError(500, <<"No images to convert to PDF">>)
                  ELSE IF ~ok THEN PlainError(<<"os.CreateTemp failed">>)
                  ELSE NilError
           content == [kind |-> conv.kind, complete |-> FALSE, items |-> <<>>]
       IN IF err = NilError
            THEN /\ disk' = WriteFile(disk, nextTmp, content)
                 /\ nextTmp' = nextTmp + 1
                 /\ conv' = [conv EXCEPT !.tmpOut = nextTmp]
                 /\ hpc' = CASE conv.kind = PDF -> "pdf_build"
                             [] conv.kind = PPTX -> "pptx_save"
                             [] OTHER -> "zip_entries"
                 /\ UNCHANGED <<resp, stages>>
            ELSE /\ ConvFail(err)
                 /\ conv' = [conv EXCEPT !.returned = TRUE]
                 /\ stages' = Ended(stages, FALSE)
                 /\ UNCHANGED nextTmp
    /\ UNCHANGED <<req, docShort, manifest, quality, highResImages, thumbnail>>
    /\ UNCHANGED <<created, remote, publishCalls, fetchVars, pdfVars>>

\* Where a converter goes after its build step, by whether the step failed.
AfterBuildIgnoringError(failed) == "publish"
AfterBuild(failed) == IF failed THEN "done" ELSE "publish"

\* ConvertURLsToPDF, lines 325-328: convertImagePathsToPDF writes one page per
\* image to the temp file, or fails.
PdfBuild(ok) ==
    /\ hpc = "pdf_build"
    /\ hpc' = AfterBuild(~ok)
    /\ IF ok
         THEN /\ disk' = WriteFile(disk, conv.tmpOut,
                    [kind |-> PDF, complete |-> TRUE, items |-> ItemsOf(disk, conv.imagePaths, "page")])
              /\ UNCHANGED <<conv, resp>>
         ELSE /\ disk' = DeferredCleanup(disk, conv)
              /\ resp' = ErrorResponse(CustomAPIError(500, <<"pdf error">>), "pipeline")
              /\ conv' = [conv EXCEPT !.returned = TRUE]
    /\ stages' = Ended(stages, ok)
    /\ UNCHANGED <<req, docShort, manifest, quality, highResImages, thumbnail>>
    /\ UNCHANGED <<nextTmp, created, remote, publishCalls, fetchVars, pdfVars>>

\* ConvertURLsToPPTX, lines 364-372: one AddImageSlide per image; a failed one
\* returns fmt.Errorf("failed to add image to slide: %v", err).
PptxAddSlides(ok) ==
    /\ hpc = "pptx_addSlides"
    /\ IF ok
         THEN /\ hpc' = "pptx_createTemp"
              /\ conv' = [conv EXCEPT !.deck = ItemsOf(disk, conv.imagePaths, "slide")]
              /\ UNCHANGED <<disk, resp, stages>>
         ELSE /\ ConvFail(PlainError(<<"failed to add image to slide: ", "ppt error">>))
              /\ conv' = [conv EXCEPT !.returned = TRUE]
              /\ stages' = Ended(stages, FALSE)
    /\ UNCHANGED <<req, docShort, manifest, quality, highResImages, thumbnail>>
    /\ UNCHANGED <<nextTmp, created, remote, publishCalls, fetchVars, pdfVars>>

\* ConvertURLsToPPTX, lines 383-386: p.Save writes the deck, or
\* fmt.Errorf("failed to save PPTX: %v", err).
PptxSave(ok) ==
    /\ hpc = "pptx_save"
    /\ hpc' = AfterBuild(~ok)
    /\ IF ok
         THEN /\ disk' = WriteFile(disk, conv.tmpOut,
                    [kind |-> PPTX, complete |-> TRUE, items |-> conv.deck])
              /\ UNCHANGED <<conv, resp>>
         ELSE /\ disk' = DeferredCleanup(disk, conv)
              /\ resp' = ErrorResponse(PlainError(<<"failed to save PPTX: ", "ppt error">>), "pipeline")
              /\ conv' = [conv EXCEPT !.returned = TRUE]
    /\ stages' = Ended(stages, ok)
    /\ UNCHANGED <<req, docShort, manifest, quality, highResImages, thumbnail>>
    /\ UNCHANGED <<nextTmp, created, remote, publishCalls, fetchVars, pdfVars>>

\* ConvertURLsToZip, lines 429-453: one entry image_<i+1>.jpg per image, its
\* bytes copied from the image file; a failed open, create or copy returns a
\* CustomAPIError.
ZipEntryFailures == {"open", "create", "write to"}
ZipEntries(outcome) ==
    /\ hpc = "zip_entries"
    /\ IF outcome = "ok"
         THEN /\ hpc' = "zip_close"
              /\ disk' = WriteFile(disk, conv.tmpOut,
                    [kind |-> ImagesZip, complete |-> FALSE,
                     items |-> ZipItemsOf(disk, conv.imagePaths)])
              /\ UNCHANGED <<conv, resp, stages>>
         ELSE /\ ConvFail(CustomAPIError(500, <<"Failed to ", outcome, " zip">>))
              /\ conv' = [conv EXCEPT !.returned = TRUE]
              /\ stages' = Ended(stages, FALSE)
    /\ UNCHANGED <<req, docShort, manifest, quality, highResImages, thumbnail>>
    /\ UNCHANGED <<nextTmp, created, remote, publishCalls, fetchVars, pdfVars>>

\* ConvertURLsToZip, lines 455-458: zipWriter.Close() completes the archive.
ZipClose(ok) ==
    /\ hpc = "zip_close"
    /\ hpc' = AfterBuild(~ok)
    /\ IF ok
         THEN /\ disk' = WriteFile(disk, conv.tmpOut, [disk[conv.tmpOut] EXCEPT !.complete = TRUE])
              /\ UNCHANGED <<conv, resp>>
         ELSE /\ disk' = DeferredCleanup(disk, conv)
              /\ resp' = ErrorResponse(CustomAPIError(500, <<"Failed to close zip: ", "zip error">>), "pipeline")
              /\ conv' = [conv EXCEPT !.returned = TRUE]
    /\ stages' = Ended(stages, ok)
    /\ UNCHANGED <<req, docShort, manifest, quality, highResImages, thumbnail>>
    /\ UNCHANGED <<nextTmp, created, remote, publishCalls, fetchVars, pdfVars>>

\* The FTP path and uploadToFTP(tmp, ftpPath): on success the file's content
\* is stored remotely; on failure the converter returns its upload error.
Upload(ok) ==
    /\ hpc = "publish"
    /\ LET path == FtpPathOf([base |-> docShort, ext |-> ExtOf(conv.kind)])
           content == IF conv.tmpOut \in DOMAIN disk THEN disk[conv.tmpOut] ELSE NoContent
       IN /\ publishCalls' = publishCalls + 1
          /\ remote' = IF ok THEN WriteFile(remote, path, content) ELSE remote
          /\ conv' = [conv EXCEPT !.uploaded = content, !.ftpPath = path, !.returned = ~ok]
          /\ hpc' = IF ok THEN "stat" ELSE "done"
          /\ disk' = IF ok THEN disk ELSE DeferredCleanup(disk, conv)
          /\ resp' = IF ok THEN resp ELSE ErrorResponse(UploadError(conv.kind), "pipeline")
          /\ stages' = Ran(stages, "Publish", ok)
    /\ UNCHANGED <<req, docShort, manifest, quality, highResImages, thumbnail>>
    /\ UNCHANGED <<nextTmp, created, fetchVars, pdfVars>>

\* os.Stat of the export file, then the converter's return with its deferred
\* removals; a failed Stat returns the os error as it is.
Stat(ok) ==
    /\ hpc = "stat"
    /\ hpc' = IF ok THEN "assemble" ELSE "done"
    /\ conv' = [conv EXCEPT !.size = IF ok THEN FileSize(disk[conv.tmpOut]) ELSE 0,
                            !.returned = TRUE]
    /\ disk' = DeferredCleanup(disk, conv)
    /\ resp' = IF ok THEN resp ELSE ErrorResponse(PlainError(<<"os.Stat failed">>), "pipeline")
    /\ UNCHANGED <<req, docShort, manifest, quality, highResImages, thumbnail, stages>>
    /\ UNCHANGED <<nextTmp, created, remote, publishCalls, fetchVars, pdfVars>>

\* GetSlidesDownloadLink, lines 558-573, and c.JSON(result).
Assemble ==
    /\ hpc = "assemble"
    /\ hpc' = "done"
    /\ resp' = SuccessResponse(
                 [thumbnail |-> thumbnail,
                  quality |-> req.quality,
                  conversion_type |-> req.conversion_type,
                  slides_download_link |-> [base |-> "BASE_URL", path |-> conv.ftpPath],
                  file_name |-> conv.ftpPath.name,
                  size |-> conv.size,
                  title |-> "title"])
    /\ stages' = Ran(stages, "Assemble", TRUE)
    /\ UNCHANGED <<req, docShort, manifest, quality, highResImages, thumbnail, conv>>
    /\ UNCHANGED <<envVars, fetchVars, pdfVars>>

PipeNext ==
    \/ ConvertHandler
    \/ ValidateStage
    \/ \E net \in BOOLEAN, status \in PageStatuses, parses \in BOOLEAN, slides \in Manifests :
         Resolve(net, status, parses, slides)
    \/ Select
    \/ Dispatch
    \/ AfterFetch
    \/ \E ok \in BOOLEAN : CreateTemp(ok)
    \/ \E ok \in BOOLEAN : PdfBuild(ok)
    \/ \E ok \in BOOLEAN : PptxAddSlides(ok)
    \/ \E ok \in BOOLEAN : PptxSave(ok)
    \/ \E o \in {"ok"} \cup ZipEntryFailures : ZipEntries(o)
    \/ \E ok \in BOOLEAN : ZipClose(ok)
    \/ \E ok \in BOOLEAN : Upload(ok)
    \/ \E ok \in BOOLEAN : Stat(ok)
    \/ Assemble

\* ------------------------------------------------------ FetchSpec
\* fetchImagesConcurrently alone, called on a URL list and a ceiling drawn
\* from bounded sets.
FetchUrl(i) == [slide |-> i, width |-> 2048]

IdlePipe ==
    /\ hpc = "direct"
    /\ req = [ok |-> TRUE, url |-> "", conversion_type |-> "", quality |-> ""]
    /\ docShort = ""
    /\ manifest = <<>>
    /\ quality = 0
    /\ highResImages = <<>>
    /\ thumbnail = NoUrl
    /\ conv = ConvIdle
    /\ stages = <<>>
    /\ resp = NoResponse

\* No call of convertImagePathsToPDF is under way.
NoPdf == [pages |-> <<>>, err |-> NoErr]
IdlePdf ==
    /\ ppc = "idle"
    /\ imagePaths = <<>>
    /\ pdfPath = NoPath
    /\ pdf = NoPdf
    /\ imgIdx = 0
    /\ pdfCalls = <<>>

EmptyEnv ==
    /\ disk = <<>>
    /\ nextTmp = 1
    /\ created = {}
    /\ remote = <<>>
    /\ publishCalls = 0

FetchInit ==
    /\ EmptyEnv
    /\ IdlePdf
    /\ IdlePipe
    /\ \E n \in 0..MaxUrls, mc \in 1..MaxCeil :
         /\ fpc = "running"
         /\ urls = [i \in 1..n |-> FetchUrl(i)]
         /\ maxConcurrency = mc
         /\ spawned = 0
         /\ wg = 0
         /\ sem = 0
         /\ tpc = [i \in 1..n |-> "unspawned"]
         /\ results = [i \in 1..n |-> NoPath]
         /\ errors = [i \in 1..n |-> NoErr]
         /\ requests = [i \in 1..n |-> 0]
         /\ fetchRet = [paths |-> <<>>, err |-> NilError]

FetchSpec == FetchInit /\ [][FetchNext]_vars

\* ------------------------------------------------------ Spec
\* One /convert request, from convertHandler to its response.
Init ==
    /\ EmptyEnv
    /\ IdlePdf
    /\ fpc = "idle"
    /\ urls = <<>>
    /\ maxConcurrency = 0
    /\ spawned = 0
    /\ wg = 0
    /\ sem = 0
    /\ tpc = <<>>
    /\ results = <<>>
    /\ errors = <<>>
    /\ requests = <<>>
    /\ fetchRet = [paths |-> <<>>, err |-> NilError]
    /\ hpc = "handler"
    /\ req \in Requests
    /\ docShort = ""
    /\ manifest = <<>>
    /\ quality = 0
    /\ highResImages = <<>>
    /\ thumbnail = NoUrl
    /\ conv = ConvIdle
    /\ stages = <<>>
    /\ resp = NoResponse

Next == PipeNext \/ FetchNext

Spec == Init /\ [][Next]_vars

\* ------------------------------------------------------ FairFetchSpec
\* fetchImagesConcurrently alone under the Go scheduler: the spawning
\* goroutine and every spawned goroutine that can take a step eventually
\* takes it, and every fetchImage call returns (its request is bounded by the
\* 20 s timeout).  The ceilings are those of FetchSpec and the two the
\* converters pass.
CallerCeilings == {PdfConcurrency, PptxConcurrency, ZipConcurrency}
FairFetchInit ==
    /\ EmptyEnv
    /\ IdlePdf
    /\ IdlePipe
    /\ \E n \in 0..MaxUrls, mc \in (1..MaxCeil) \cup CallerCeilings :
         /\ fpc = "running"
         /\ urls = [i \in 1..n |-> FetchUrl(i)]
         /\ maxConcurrency = mc
         /\ spawned = 0
         /\ wg = 0
         /\ sem = 0
         /\ tpc = [i \in 1..n |-> "unspawned"]
         /\ results = [i \in 1..n |-> NoPath]
         /\ errors = [i \in 1..n |-> NoErr]
         /\ requests = [i \in 1..n |-> 0]
         /\ fetchRet = [paths |-> <<>>, err |-> NilError]

FetchFairness ==
    /\ WF_vars(Spawn)
    /\ \A i \in 1..MaxUrls : WF_vars(i \in Indices /\ Acquire(i))
    /\ \A i \in 1..MaxUrls : WF_vars(i \in Indices /\ \E o \in FetchOutcomes : FetchImage(i, o))
    /\ \A i \in 1..MaxUrls : WF_vars(i \in Indices /\ TaskExit(i))
    /\ WF_vars(Join)

FairFetchSpec == FairFetchInit /\ [][FetchNext]_vars /\ FetchFairness

\* ------------------------------------------------------ ArchiveSpec
\* ConvertURLsToZip from the return of a successful fetch of n images on: the
\* temp files were created in some order of completion (a rotation r of the
\* input order), file results[i] holding the image of URL i.
MaxEntries == 10
\* Images handed to convertImagePathsToPDF, and calls made on the same images.
MaxImages == 3
MaxExports == 2
ArchiveInit ==
    \E n \in 1..MaxEntries : \E r \in 0..(n - 1) :
        LET paths == [i \in 1..n |-> ((i - 1 + r) % n) + 1]
            us == [i \in 1..n |-> FetchUrl(i)]
        IN /\ disk = [f \in 1..n |-> JpegOf(us[CHOOSE i \in 1..n : paths[i] = f])]
           /\ nextTmp = n + 1
           /\ created = 1..n
           /\ remote = <<>>
           /\ publishCalls = 0
           /\ fpc = "returned"
           /\ urls = us
           /\ maxConcurrency = ZipConcurrency
           /\ spawned = n
           /\ wg = 0
           /\ sem = 0
           /\ tpc = [i \in 1..n |-> "done"]
           /\ results = paths
           /\ errors = [i \in 1..n |-> NoErr]
           /\ requests = [i \in 1..n |-> 1]
           /\ fetchRet = [paths |-> paths, err |-> NilError]
           /\ hpc = "zip_createTemp"
           /\ req = [ok |-> TRUE, url |-> "https://www.slideshare.net/slideshow/my-deck/123",
                     conversion_type |-> ImagesZip, quality |-> HD]
           /\ docShort = "my-deck"
           /\ manifest = [i \in 1..n |-> [w \in {HDWidth} |-> us[i]]]
           /\ quality = HDWidth
           /\ highResImages = us
           /\ thumbnail = us[1]
           /\ conv = [ConvIdle EXCEPT !.kind = ImagesZip, !.imagePaths = paths, !.fetched = TRUE]
           /\ stages = <<[name |-> "Validate", status |-> "ok"], [name |-> "Resolve", status |-> "ok"],
                         [name |-> "Select", status |-> "ok"], [name |-> "Fetch", status |-> "ok"],
                         [name |-> "Export", status |-> "running"]>>
           /\ resp = NoResponse
           /\ IdlePdf

ArchiveNext ==
    \/ \E ok \in BOOLEAN : CreateTemp(ok)
    \/ \E o \in {"ok"} \cup ZipEntryFailures : ZipEntries(o)
    \/ \E ok \in BOOLEAN : ZipClose(ok)
    \/ \E ok \in BOOLEAN : Upload(ok)
    \/ \E ok \in BOOLEAN : Stat(ok)
    \/ Assemble

ArchiveSpec == ArchiveInit /\ [][ArchiveNext]_vars

\* ------------------------------------------------------ PdfSpec
\* convertImagePathsToPDF alone, called MaxExports times on the same image paths
\* and the same pdfPath, as ConvertURLsToPDF calls it: on the paths the fetch
\* returned and the name of the empty temp file it has just created.

\* gofpdf.New("P", "mm", "A4", ""): GetPageSize gives the A4 page in mm.
PageWidth == 210
PageHeight == 297

\* Pixel sizes of the stored images: wider than the page's shape, narrower,
\* of the page's own shape, and smaller than the page.
ImageSizes == {<<2048, 1536>>, <<638, 1000>>, <<210, 297>>, <<100, 100>>}
StoredImage(i, size) == JpegOf([slide |-> i, width |-> size[1], height |-> size[2]])
EmptyExport == [kind |-> PDF, complete |-> FALSE, items |-> <<>>]

\* image.DecodeConfig(file): Width and Height from the header of an image
\* file, an error for a file that is no image.
DecodeConfig(content) ==
    IF content.kind = "jpeg"
      THEN [ok |-> TRUE, Width |-> content.src.width, Height |-> content.src.height]
      ELSE [ok |-> FALSE, Width |-> 0, Height |-> 0]

\* float64 values are kept as fractions <<numerator, denominator>> in lowest
\* terms, so that equal values are equal pairs.
RECURSIVE Gcd(_, _)
Gcd(a, b) == IF b = 0 THEN a ELSE Gcd(b, a % b)
Frac(n, d) == <<n \div Gcd(n, d), d \div Gcd(n, d)>>
\* ratio := math.Min(pageWidth/width, pageHeight/height)
FitRatioMax(pw, ph, w, h) == IF pw * h >= ph * w THEN Frac(pw, w) ELSE Frac(ph, h)
FitRatio(pw, ph, w, h) == IF pw * h <= ph * w THEN Frac(pw, w) ELSE Frac(ph, h)
\* width *= ratio
Times(x, r) == Frac(x * r[1], r[2])

\* pdf := gofpdf.New(...): a document without pages and without error.
NewPdf == [pages |-> <<>>, err |-> NoErr]
BlankPage == [img |-> NoPath, w |-> <<0, 1>>, h |-> <<0, 1>>]
\* pdf.AddPage(): does nothing once the document carries an error.
AddPage(doc) == IF doc.err # NoErr THEN doc ELSE [doc EXCEPT !.pages = Append(@, BlankPage)]
\* pdf.Image(imgPath, 0, 0, width, height, ...): puts the image on the current
\* page; a failure is kept in the document, and later calls do nothing.
Image(doc, path, w, h, ok) ==
    IF doc.err # NoErr THEN doc
    ELSE IF ok THEN [doc EXCEPT !.pages[Len(doc.pages)] = [img |-> path, w |-> w, h |-> h]]
    ELSE [doc EXCEPT !.err = "image"]

\* What a call returned together with the pages its document had then.
Returned(doc, err) == [err |-> err, pages |-> doc.pages]

\* Line 200.
PdfNew ==
    /\ ppc = "new"
    /\ ppc' = "loop"
    /\ pdf' = NewPdf
    /\ imgIdx' = 1
    /\ UNCHANGED <<imagePaths, pdfPath, pdfCalls>>
    /\ UNCHANGED <<envVars, fetchVars, pipeVars>>

\* One iteration of the range loop, lines 202-224: os.Open and DecodeConfig,
\* either of which returns its error; otherwise the page and its image.
PdfPage(imageOk) ==
    /\ ppc = "loop"
    /\ imgIdx <= Len(imagePaths)
    /\ LET imgPath == imagePaths[imgIdx]
           opened == imgPath \in DOMAIN disk
           img == IF opened THEN DecodeConfig(disk[imgPath]) ELSE DecodeConfig(NoContent)
           err == IF ~opened THEN "open" ELSE IF ~img.ok THEN "decode" ELSE NoErr
           ratio == FitRatio(PageWidth, PageHeight, img.Width, img.Height)
       IN IF err # NoErr
            THEN /\ ppc' = "returned"
                 /\ pdfCalls' = Append(pdfCalls, Returned(pdf, err))
                 /\ UNCHANGED <<pdf, imgIdx>>
            ELSE /\ pdf' = Image(AddPage(pdf), imgPath,
                                 Times(img.Width, ratio), Times(img.Height, ratio), imageOk)
                 /\ imgIdx' = imgIdx + 1
                 /\ UNCHANGED <<ppc, pdfCalls>>
    /\ UNCHANGED <<imagePaths, pdfPath>>
    /\ UNCHANGED <<envVars, fetchVars, pipeVars>>

\* Line 226, pdf.OutputFileAndClose(pdfPath): returns the document's error
\* without touching the file; otherwise creates the file and writes the
\* document, and either of the two can fail.
OutputOutcomes == {"ok", "create", "write"}
PdfOutput(outcome) ==
    /\ ppc = "loop"
    /\ imgIdx > Len(imagePaths)
    /\ LET err == IF pdf.err # NoErr THEN pdf.err
                  ELSE IF outcome = "ok" THEN NoErr ELSE outcome
       IN /\ disk' = IF pdf.err # NoErr \/ outcome = "create" THEN disk
                     ELSE WriteFile(disk, pdfPath,
                            [kind |-> PDF, complete |-> outcome = "ok", items |-> pdf.pages])
          /\ pdfCalls' = Append(pdfCalls, Returned(pdf, err))
    /\ ppc' = "returned"
    /\ UNCHANGED <<imagePaths, pdfPath, pdf, imgIdx>>
    /\ UNCHANGED <<nextTmp, created, remote, publishCalls, fetchVars, pipeVars>>

\* The next call with the same arguments.
PdfAgain ==
    /\ ppc = "returned"
    /\ Len(pdfCalls) < MaxExports
    /\ ppc' = "new"
    /\ UNCHANGED <<imagePaths, pdfPath, pdf, imgIdx, pdfCalls>>
    /\ UNCHANGED <<envVars, fetchVars, pipeVars>>

\* n images were fetched to the files 1..n, of which some have gone since and
\* some are no images; file n + 1 is the empty temp file for the export.
PdfInit ==
    /\ \E n \in 1..MaxImages : \E present \in SUBSET (1..n) :
         \E images \in SUBSET present : \E size \in [1..n -> ImageSizes] :
           /\ disk = [f \in present \cup {n + 1} |->
                        IF f = n + 1 THEN EmptyExport
                        ELSE IF f \in images THEN StoredImage(f, size[f])
                        ELSE NoContent]
           /\ nextTmp = n + 2
           /\ created = present
           /\ imagePaths = [i \in 1..n |-> i]
           /\ pdfPath = n + 1
    /\ remote = <<>>
    /\ publishCalls = 0
    /\ fpc = "idle"
    /\ urls = <<>>
    /\ maxConcurrency = 0
    /\ spawned = 0
    /\ wg = 0
    /\ sem = 0
    /\ tpc = <<>>
    /\ results = <<>>
    /\ errors = <<>>
    /\ requests = <<>>
    /\ fetchRet = [paths |-> <<>>, err |-> NilError]
    /\ IdlePipe
    /\ ppc = "new"
    /\ pdf = NoPdf
    /\ imgIdx = 0
    /\ pdfCalls = <<>>

PdfNext ==
    \/ PdfNew
    \/ \E imageOk \in BOOLEAN : PdfPage(imageOk)
    \/ \E outcome \in OutputOutcomes : PdfOutput(outcome)
    \/ PdfAgain

PdfSpec == PdfInit /\ [][PdfNext]_vars

\* ================================================================ claims
\* Goroutines between sem.Acquire and sem.Release (executing fetchImage or
\* about to run their deferred Release).
InFlight == {i \in Indices : tpc[i] \in {"fetch", "exit"}}
\* Whether a stage of that name has run, and how it ended.
StageRan(name) == \E k \in DOMAIN stages : stages[k].name = name
StageFailed(name) == \E k \in DOMAIN stages : stages[k].name = name /\ stages[k].status = "failed"
StageOk(name) == \E k \in DOMAIN stages : stages[k].name = name /\ stages[k].status = "ok"
\* The slides of the manifest that offer width w.
Offering(w) == {i \in DOMAIN manifest : w \in DOMAIN manifest[i]}

\* C1: all-or-nothing fetch.  When fetchImagesConcurrently has returned and at
\* least one task failed, it returned an error and no paths, and no temp file
\* created by any of its tasks is left on storage.
C1_AllOrNothing ==
    (fpc = "returned" /\ FailedIndices(errors) # {}) =>
        /\ fetchRet.err # NilError
        /\ fetchRet.paths = <<>>
        /\ created \cap DOMAIN disk = {}

\* C2: positional ordering.  When fetchImagesConcurrently has returned and
\* every task succeeded, the output is as long as the input and output[i] is
\* the file written from input URL i, whatever the order of completion.
C2_PositionalOrdering ==
    (fpc = "returned" /\ FailedIndices(errors) = {}) =>
        /\ fetchRet.err = NilError
        /\ Len(fetchRet.paths) = Len(urls)
        /\ \A i \in Indices :
             /\ fetchRet.paths[i] \in DOMAIN disk
             /\ disk[fetchRet.paths[i]] = [kind |-> "jpeg", src |-> urls[i], complete |-> TRUE]
\* All tasks succeeded, and the task of URL 2 wrote its file before that of URL 1.
C2_Witness ==
    /\ fpc = "returned"
    /\ FailedIndices(errors) = {}
    /\ Len(urls) >= 2
    /\ fetchRet.paths[2] < fetchRet.paths[1]

\* C3: concurrency ceiling.  In every state of a call the number of tasks
\* between acquiring and releasing the semaphore is at most maxConcurrency.
C3_ConcurrencyCeiling ==
    fpc = "running" => Cardinality(InFlight) <= maxConcurrency
\* More URLs than permits: the ceiling is reached while another task waits.
C3_Witness ==
    /\ fpc = "running"
    /\ Len(urls) > maxConcurrency
    /\ Cardinality(InFlight) = maxConcurrency
    /\ \E i \in Indices : tpc[i] = "acquire"

\* C4: linear fail-fast pipeline.  The stages run in the order Validate,
\* Resolve, Select, Fetch, Export, Publish, Assemble; a stage starts only after
\* every earlier one succeeded; after a failed stage nothing more runs and the
\* response is no success; a success response has all seven stages succeeded;
\* and uploadToFTP is called only with the complete export file built from
\* every selected image.
C4_LinearFailFast ==
    /\ Len(stages) <= Len(StageOrder)
    /\ \A k \in DOMAIN stages : stages[k].name = StageOrder[k]
    /\ \A k \in DOMAIN stages : k < Len(stages) => stages[k].status = "ok"
    /\ (\E k \in DOMAIN stages : stages[k].status = "failed") =>
           /\ hpc = "done"
           /\ ~resp.success
    /\ resp.success =>
           /\ Len(stages) = Len(StageOrder)
           /\ \A k \in DOMAIN stages : stages[k].status = "ok"
    /\ publishCalls > 0 =>
           /\ StageOk("Fetch") /\ StageOk("Export")
           /\ conv.uploaded.complete
           /\ Len(conv.uploaded.items) = Len(highResImages)
           /\ \A k \in DOMAIN highResImages :
                conv.uploaded.items[k].data =
                    [kind |-> "jpeg", src |-> highResImages[k], complete |-> TRUE]
\* Publish was reached and failed: the request ended there.
C4_Witness ==
    /\ hpc = "done"
    /\ publishCalls = 1
    /\ StageFailed("Publish")
    /\ Len(highResImages) >= 2

\* C5: cleanup after a successful fetch stage.  Once a converter whose fetch
\* succeeded has returned (with success, an export failure or a publish
\* failure), no fetched image and no export output file is left on storage.
C5_CleanupAfterFetch ==
    (conv.fetched /\ conv.returned) =>
        /\ \A k \in DOMAIN conv.imagePaths : conv.imagePaths[k] \notin DOMAIN disk
        /\ conv.tmpOut # NoPath => conv.tmpOut \notin DOMAIN disk
        /\ created \cap DOMAIN disk = {}
\* The archive converter returned a publish failure, its output file created.
C5_Witness ==
    /\ conv.kind = ImagesZip
    /\ conv.fetched /\ conv.returned
    /\ conv.tmpOut # NoPath
    /\ StageFailed("Publish")
    /\ Len(conv.imagePaths) >= 2

\* C6: single error shape.  Every error GetSlidesDownloadLink returns is a
\* CustomAPIError whose status and detail reach the response.
C6_SingleErrorShape ==
    (hpc = "done" /\ resp.origin = "pipeline") =>
        /\ resp.err.type = "CustomAPIError"
        /\ resp.status = resp.err.StatusCode
        /\ resp.detail = resp.err.Detail

\* C7: status classification.  Every non-success response has status 400, 404
\* or 500: 400 for input and validation errors, 404 for an empty manifest or
\* an empty selection, 500 for every fetch, export or publish failure, and 500
\* for a failed source-page fetch.
C7_StatusClassification ==
    (hpc = "done" /\ ~resp.success) =>
        /\ resp.status \in {400, 404, 500}
        /\ resp.origin = "handler" => resp.status = 400
        /\ StageFailed("Validate") => resp.status = 400
        /\ StageFailed("Resolve") => resp.status \in {404, 500}
        /\ StageFailed("Select") => resp.status = 404
        /\ (StageFailed("Fetch") \/ StageFailed("Export") \/ StageFailed("Publish")) =>
               resp.status = 500

\* C8: conversion-type selection.  A request with conversion_type pdf, pptx or
\* images_zip whose selection succeeded runs the PDF, slide-deck or archive
\* converter; a success for conversion_type=pdf reports "PDF" and a download
\* link ending in <doc-short-name>.pdf.
C8_ConversionTypeSelection ==
    /\ (hpc = "done" /\ StageOk("Select") /\ req.conversion_type \in {"pdf", "pptx", "images_zip"}) =>
           conv.kind = (CASE req.conversion_type = "pdf" -> PDF
                          [] req.conversion_type = "pptx" -> PPTX
                          [] OTHER -> ImagesZip)
    /\ (resp.success /\ req.conversion_type = "pdf") =>
           /\ resp.data.conversion_type = "PDF"
           /\ resp.data.slides_download_link.path.name = [base |-> docShort, ext |-> ".pdf"]

\* C9: quality-tier mapping.  quality=sd selects width 638, quality=hd or no
\* quality selects 2048; so a quality=sd request for a source without any
\* 638-wide image is answered 404 with a detail naming 638px.
C9_QualityTierMapping ==
    StageRan("Select") =>
        /\ req.quality = "sd" => quality = 638
        /\ req.quality \in {"hd", HD} => quality = 2048
        /\ (hpc = "done" /\ req.quality = "sd" /\ Offering(638) = {}) =>
               /\ resp.status = 404
               /\ resp.detail = <<"No ", "638", "px resolution slides found">>

\* C10: resolution selector.  With w the tier's width (638 for SD, 2048
\* otherwise), the selected sequence is the manifest's entries offering w, each
\* mapped to its URL at w, in manifest order; the selection fails, with 404,
\* exactly when no entry offers w; otherwise the thumbnail is the first
\* selected URL.
C10_ResolutionSelector ==
    StageRan("Select") =>
        LET w == IF req.quality = SD THEN 638 ELSE 2048
            idx == Offering(w)
        IN /\ quality = w
           /\ Len(highResImages) = Cardinality(idx)
           /\ Len(highResImages) <= Len(manifest)
           /\ \A k \in DOMAIN highResImages :
                \E j \in idx : /\ Cardinality({m \in idx : m <= j}) = k
                               /\ highResImages[k] = manifest[j][w]
           /\ StageFailed("Select") <=> idx = {}
           /\ StageFailed("Select") => (hpc = "done" /\ resp.status = 404)
           /\ StageOk("Select") => thumbnail = highResImages[1]
\* A two-slide manifest whose first slide lacks the width: only the second
\* slide's URL is selected.
C10_Witness ==
    /\ StageOk("Select")
    /\ Len(manifest) = 2
    /\ quality \notin DOMAIN manifest[1]
    /\ quality \in DOMAIN manifest[2]
    /\ highResImages = <<manifest[2][quality]>>
    /\ req.quality = SD

\* ---- reading an archive back
\* Byte strings compared as sort(1) or strings.Compare do: lexicographically.
RECURSIVE LexLess(_, _)
LexLess(a, b) ==
    IF Len(b) = 0 THEN FALSE
    ELSE IF Len(a) = 0 THEN TRUE
    ELSE IF Head(a) # Head(b) THEN Head(a) < Head(b)
    ELSE LexLess(Tail(a), Tail(b))
\* The number a digit string denotes.
RECURSIVE DecimalValue(_)
DecimalValue(ds) ==
    IF Len(ds) = 0 THEN 0 ELSE 10 * DecimalValue(SubSeq(ds, 1, Len(ds) - 1)) + (ds[Len(ds)] - 48)
\* The k of an entry name image_<k>.jpg (0 for any other name).
IndexOfName(name) ==
    IF /\ Len(name) > Len(ImagePrefix) + Len(JpgSuffix)
       /\ SubSeq(name, 1, Len(ImagePrefix)) = ImagePrefix
       /\ SubSeq(name, Len(name) - Len(JpgSuffix) + 1, Len(name)) = JpgSuffix
    THEN DecimalValue(SubSeq(name, Len(ImagePrefix) + 1, Len(name) - Len(JpgSuffix)))
    ELSE 0
\* The contents of the entries, extracted in lexicographic order of their names.
ExtractInNameOrder(items) ==
    [k \in 1..Len(items) |->
        items[CHOOSE j \in 1..Len(items) :
                Cardinality({m \in 1..Len(items) : LexLess(items[m].name, items[j].name)}) = k - 1].data]
\* The contents of the entries, extracted in the order of the number in their names.
ExtractInNumberOrder(items) ==
    [k \in 1..Len(items) |->
        items[CHOOSE j \in 1..Len(items) :
                Cardinality({m \in 1..Len(items) :
                               IndexOfName(items[m].name) < IndexOfName(items[j].name)}) = k - 1].data]
\* The archive is complete on local storage, the fetched files still there.
ArchiveBuilt ==
    /\ conv.kind = ImagesZip
    /\ ~conv.returned
    /\ conv.tmpOut \in DOMAIN disk
    /\ disk[conv.tmpOut].complete
\* The fetched files, in input order.
Originals == [k \in 1..Len(conv.imagePaths) |-> disk[conv.imagePaths[k]]]

\* C11 (as stated): archive round-trip.  The archive of N fetched files has N
\* entries, entry k named image_<k>.jpg, and extracting the entries in name
\* order yields the fetched files in input order, for every N.
C11_RoundTripNameOrder ==
    ArchiveBuilt =>
        /\ Len(disk[conv.tmpOut].items) = Len(conv.imagePaths)
        /\ \A k \in 1..Len(conv.imagePaths) : IndexOfName(disk[conv.tmpOut].items[k].name) = k
        /\ ExtractInNameOrder(disk[conv.tmpOut].items) = Originals

\* C11 (amended): the archive of N fetched files has N entries, entry k named
\* image_<k>.jpg and stored k-th; extracting the entries in the order of the
\* number k in their names yields the fetched files in input order for every
\* N, and extracting them in lexicographic name order does so for N <= 9.
C11_RoundTripNumberOrder ==
    ArchiveBuilt =>
        /\ Len(disk[conv.tmpOut].items) = Len(conv.imagePaths)
        /\ \A k \in 1..Len(conv.imagePaths) : IndexOfName(disk[conv.tmpOut].items[k].name) = k
        /\ ExtractInNumberOrder(disk[conv.tmpOut].items) = Originals
        /\ Len(conv.imagePaths) <= 9 => ExtractInNameOrder(disk[conv.tmpOut].items) = Originals
\* A complete archive of ten files whose temp-file names are not in input order.
C11_Witness ==
    /\ ArchiveBuilt
    /\ Len(conv.imagePaths) >= 10
    /\ conv.imagePaths[1] # 1

\* C12: input errors are always 400.  A request whose url is missing or
\* blank, malformed or not a supported-site URL, or whose conversion_type is
\* missing or not an accepted value (in either spelling, pdf or PDF), is
\* answered 400, whatever the source page and its slides are.
C12_InputErrors400 ==
    (/\ hpc = "done"
     /\ \/ req.url \in {"", "   "}
        \/ req.url \in {"http://[::1", "https://example.com/a/b", "https://www.slideshare.net/deck"}
        \/ req.conversion_type \notin {"pdf", "pptx", "images_zip", PDF, PPTX, ImagesZip})
    => resp.status = 400

\* C13: structured join.  fetchImagesConcurrently spawns exactly len(urls)
\* tasks and returns only after every one of them has terminated: when it has
\* returned, no task is running or waiting and no semaphore permit is held.
C13_StructuredJoin ==
    /\ Cardinality({i \in Indices : tpc[i] # "unspawned"}) = spawned
    /\ spawned <= Len(urls)
    /\ fpc = "returned" =>
          /\ spawned = Len(urls)
          /\ \A i \in Indices : tpc[i] = "done"
          /\ sem = 0
\* Returned from a call with more URLs than permits in which a task failed.
C13_Witness ==
    /\ fpc = "returned"
    /\ Len(urls) > maxConcurrency
    /\ Len(urls) >= 3
    /\ FailedIndices(errors) # {}
    /\ FailedIndices(errors) # Indices

\* C14: termination of the fetch stage.  With every fetchImage call returning
\* and the goroutines scheduled fairly, fetchImagesConcurrently eventually
\* returns, for every URL list and every ceiling a caller passes, also with
\* more URLs than permits and with failing tasks.
C14_Termination == <>(fpc = "returned")
\* Returned although the URLs outnumbered the permits and every task failed.
C14_Witness ==
    /\ fpc = "returned"
    /\ Len(urls) > maxConcurrency
    /\ Len(urls) >= 2
    /\ FailedIndices(errors) = Indices

\* The slots a step writes: the indices at which results or errors change.
WrittenSlots == {i \in Indices : results'[i] # results[i] \/ errors'[i] # errors[i]}
\* Goroutine i is the one that takes this step out of its fetchImage call.
StoresNow(i) == tpc[i] = "fetch" /\ tpc'[i] # tpc[i]
SlotWrittenOnceByOwner ==
    \A i \in WrittenSlots :
        /\ WrittenSlots = {i}
        /\ StoresNow(i)
        /\ \A j \in Indices \ {i} : tpc'[j] = tpc[j]
        /\ results[i] = NoPath
        /\ errors[i] = NoErr
ExactlyOneOfResultAndError ==
    fpc = "returned" =>
        \A i \in Indices : (results[i] # NoPath) # (errors[i] # NoErr)

\* C15: slot partitioning.  A step that writes results or errors writes the
\* slots of one index only, the index of the goroutine whose fetchImage call
\* returns in that step, and both slots of that index were still empty; once
\* the call has returned, every index has either a path or an error, never
\* both and never neither.
C15_SlotPartitioning ==
    /\ []ExactlyOneOfResultAndError
    /\ [][SlotWrittenOnceByOwner]_vars
\* Returned after goroutine 3 stored its path before goroutine 1 did, with an
\* error stored between them at index 2.
C15_Witness ==
    /\ fpc = "returned"
    /\ Len(urls) = 3
    /\ results[1] # NoPath
    /\ errors[2] # NoErr
    /\ results[3] # NoPath
    /\ results[3] < results[1]

\* C16: representative failure.  When fetchImagesConcurrently has returned and
\* some task failed, the returned error has status 500 and its detail is the
\* fixed prefix followed by the error of the failing task with the lowest
\* index and nothing else, in whatever order the tasks ran.
C16_RepresentativeFailure ==
    (fpc = "returned" /\ FailedIndices(errors) # {}) =>
        /\ fetchRet.err.StatusCode = 500
        /\ \E i \in FailedIndices(errors) :
             /\ \A j \in FailedIndices(errors) : i <= j
             /\ fetchRet.err.Detail = <<"Failed to fetch images: ", errors[i]>>
\* Task 1 succeeded after task 2 had failed leaving its file behind, and task 3
\* failed in another way.
C16_Witness ==
    /\ fpc = "returned"
    /\ Len(urls) = 3
    /\ results[1] # NoPath
    /\ errors[2] = "encode"
    /\ errors[3] = "status"
    /\ \E f \in DOMAIN disk : f < results[1]

\* C17: single attempt, no cancellation.  Within one fetchImagesConcurrently
\* call no URL is requested more than once, a goroutine has made its one
\* request exactly when its fetchImage call has returned, and when the call
\* returns every URL has been requested once, failed siblings or not;
\* uploadToFTP is called at most once in a request.
C17_SingleAttempt ==
    /\ \A i \in Indices :
         /\ requests[i] <= 1
         /\ requests[i] = 1 <=> tpc[i] \in {"exit", "done"}
    /\ fpc = "returned" => \A i \in Indices : requests[i] = 1
    /\ publishCalls <= 1
\* Task 1 failed leaving its file behind before task 2 wrote its own, and
\* task 2 still ran to completion before the call returned.
C17_Witness ==
    /\ fpc = "returned"
    /\ Len(urls) >= 2
    /\ errors[1] = "encode"
    /\ results[2] # NoPath
    /\ requests[2] = 1
    /\ \E f \in DOMAIN disk : f < results[2]

\* The images of the call that cannot be opened or whose size cannot be read.
Unreadable ==
    {k \in DOMAIN imagePaths :
        \/ imagePaths[k] \notin DOMAIN disk
        \/ disk[imagePaths[k]].kind # "jpeg"}
\* Page pg shows the image of path p, of pixel size W x H, scaled by the
\* smaller of PageWidth/W and PageHeight/H: it keeps the image's shape, lies
\* within the page, and reaches the page's width or its height.
ScaledToFit(pg, p) ==
    LET W == disk[p].src.width
        H == disk[p].src.height
    IN /\ pg.img = p
       /\ pg.w[1] * pg.h[2] * H = pg.h[1] * pg.w[2] * W
       /\ pg.w[1] <= PageWidth * pg.w[2]
       /\ pg.h[1] <= PageHeight * pg.h[2]
       /\ (pg.w[1] = PageWidth * pg.w[2]) # (pg.h[1] = PageHeight * pg.h[2])
              \/ W * PageHeight = H * PageWidth

\* C18: the PDF exporter.  A call that succeeds has built one page per image,
\* page k showing image k scaled by min(pageWidth/width, pageHeight/height),
\* and has written exactly these pages to pdfPath; two successful calls on
\* the same images built the same pages; and when some image cannot be opened
\* or decoded, every call fails and pdfPath still is the empty temp file.
C18_PdfExporter ==
    \A c \in DOMAIN pdfCalls :
        LET run == pdfCalls[c]
        IN /\ run.err = NoErr =>
                /\ Len(run.pages) = Len(imagePaths)
                /\ \A k \in DOMAIN imagePaths : ScaledToFit(run.pages[k], imagePaths[k])
                /\ \A d \in DOMAIN pdfCalls :
                      pdfCalls[d].err = NoErr => pdfCalls[d].pages = run.pages
           /\ (run.err = NoErr /\ c = Len(pdfCalls) /\ ppc = "returned") =>
                disk[pdfPath] = [kind |-> PDF, complete |-> TRUE, items |-> run.pages]
           /\ Unreadable # {} =>
                /\ run.err # NoErr
                /\ disk[pdfPath] = EmptyExport
\* Two calls succeeded on three images, the first limited by the page's
\* width and the second by its height.
C18_Witness ==
    /\ Len(pdfCalls) = 2
    /\ pdfCalls[1].err = NoErr
    /\ pdfCalls[2].err = NoErr
    /\ Len(imagePaths) = 3
    /\ pdfCalls[2].pages[1].w = <<PageWidth, 1>>
    /\ pdfCalls[2].pages[1].h # <<PageHeight, 1>>
    /\ pdfCalls[2].pages[2].h = <<PageHeight, 1>>
    /\ pdfCalls[2].pages[2].w # <<PageWidth, 1>>

====
